---------------------------- MODULE Spec2Model ----------------------------
(***************************************************************************)
(* The mining-projection arithmetic of BitcoinTracker: the browser         *)
(* tracker's calculator methods (BitcoinTracker, src/unnamed/part_000) and *)
(* the server's BitcoinDataService (src/unnamed/part_003), as a state      *)
(* machine whose steps are calls of those methods.                         *)
(*                                                                         *)
(* Numbers.  TLC's integers are 32 bits wide, JavaScript's numbers are     *)
(* IEEE doubles.  Two exact representations are used:                      *)
(*   - a dyadic value [m, e] = m * 2^e (m odd, or m = 0 and e = 0) for the *)
(*     block reward and what is multiplied with it: 50 / 2^k and           *)
(*     n * 6.25 are exact in a double, so the double IS this value;        *)
(*   - a decimal value [whole, frac] = whole + frac / 10^8                 *)
(*     (0 <= frac < 10^8) for BTC amounts derived from a satoshi count,    *)
(*     which is itself given in two limbs of base 10^8.  A double holds    *)
(*     such an amount to within 4e-9 below 2^25, while its distance to the *)
(*     nearest integer is 0 or at least 1e-8: Math.floor of the double is  *)
(*     the floor of the exact value, which is what is modelled.            *)
(*                                                                         *)
(* Dates are day numbers: new Date() reads the ambient clock, and          *)
(* setDate(getDate() + d) adds the whole days of d.  A returned record     *)
(* holds the fields the arithmetic decides; the passed-through difficulty  *)
(* and hash rate, the block list and the timestamps are left out.          *)
(* isEstimated, absent from a measured record in the source, is FALSE      *)
(* there.  A percentage printed by toFixed(d) is the integer its digits    *)
(* spell, in units of 10^-d percent ("95.0363" is 950363); the service's   *)
(* unrounded percentageMined is left out.                                  *)
(***************************************************************************)
EXTENDS Integers, Sequences, FiniteSets, TLC

VARIABLES
    clock, last, prev,               \* the calculators: the ambient day, the
                                     \* last call and the one before it
    now, cache, req, ev, wrote, watch,
                                     \* the HTTP handlers: the time, the cache
                                     \* Map, the requests in flight, the last
                                     \* handler step, and what was last stored
                                     \* and first fetched per cache key
    script, initState, timers, this_data, loading, loads, cev,
                                     \* the page: which script runs, how far
                                     \* init() got, the interval timers, the
                                     \* data shown, the loading indicator, the
                                     \* loads in flight and the last page step
    selectedCurrency, batch          \* this.selectedCurrency, and of the loads
                                     \* that overlap: which started last and
                                     \* what it came to

calcVars == <<clock, last, prev>>

serverVars == <<now, cache, req, ev, wrote, watch>>

clientVars ==
    <<script, initState, timers, this_data, loading, loads, cev,
      selectedCurrency, batch>>

vars ==
    <<clock, last, prev, now, cache, req, ev, wrote, watch,
      script, initState, timers, this_data, loading, loads, cev,
      selectedCurrency, batch>>

(***************************************************************************)
(* Bounds of the model.                                                    *)
(***************************************************************************)
MaxEpoch == 34
MaxDay == 1
\* the handlers' time runs in steps of MsPerStep milliseconds up to MaxTime
\* steps; Requests are the requests that can be in flight together
MsPerStep == 150000
MaxTime == 3
MaxRequests == 2
\* the loads of one page that can be in flight together
MaxLoads == 2

(***************************************************************************)
(* Program constants.                                                      *)
(***************************************************************************)
TOTAL_BITCOIN_SUPPLY == 21000000
SATOSHIS_PER_BITCOIN == 100000000
BLOCKS_PER_DAY_AVERAGE == 144
HALVING_INTERVAL == 210000
DEFAULT_BLOCK_HEIGHT == 850000

(***************************************************************************)
(* Dyadic values m * 2^e.                                                  *)
(***************************************************************************)
RECURSIVE DyNorm(_, _)
DyNorm(m, e) ==
    IF m = 0 THEN [m |-> 0, e |-> 0]
    ELSE IF m % 2 = 0 THEN DyNorm(m \div 2, e + 1)
    ELSE [m |-> m, e |-> e]

DyOfInt(n) == DyNorm(n, 0)

DyZero == DyOfInt(0)

DyMul(a, b) == DyNorm(a.m * b.m, a.e + b.e)

\* a / Math.pow(2, k): exact in a double for every k the model reaches
DyDivPow2(a, k) == DyNorm(a.m, a.e - k)

DyHalf(a) == DyDivPow2(a, 1)

RECURSIVE Pow2(_)
Pow2(n) == IF n <= 0 THEN 1 ELSE 2 * Pow2(n - 1)

\* a <= b, for a, b >= 0.  Mantissas of the model stay below 2^20, so a
\* shift of more than 20 bits decides the comparison by itself.
DyLeq(a, b) ==
    IF a.m = 0 THEN TRUE
    ELSE IF b.m = 0 THEN FALSE
    ELSE IF a.e >= b.e
         THEN IF a.e - b.e > 20 THEN FALSE
              ELSE a.m * Pow2(a.e - b.e) <= b.m
         ELSE IF b.e - a.e > 20 THEN TRUE
              ELSE a.m <= b.m * Pow2(b.e - a.e)

\* the integer a dyadic value denotes (e >= 0)
DyToInt(a) == a.m * Pow2(a.e)

(***************************************************************************)
(* Decimal values whole + frac / 10^8.                                     *)
(***************************************************************************)
Fx(w, f) == [whole |-> w, frac |-> f]

\* satoshis / 100000000, the satoshi count given as hi * 10^8 + lo
FxOfSatoshis(sat) == Fx(sat.hi, sat.lo)

\* n - a, n an integer
FxSubFromInt(n, a) ==
    IF a.frac = 0 THEN Fx(n - a.whole, 0)
    ELSE Fx(n - a.whole - 1, SATOSHIS_PER_BITCOIN - a.frac)

FxFloor(a) == a.whole

\* Math.floor(a / n), n a positive integer
FxFloorDiv(a, n) == a.whole \div n

\* Math.floor(x / n) and Math.ceil(x / n) of integers, n > 0
Math_floor_div(x, n) == x \div n
Math_ceil_div(x, n) == -((-x) \div n)

(***************************************************************************)
(* BitcoinTracker (the browser tracker).                                   *)
(***************************************************************************)
Ok(v) == [status |-> "ok", value |-> v]

getCurrentBlockReward_ceil(blockHeight) ==
    DyDivPow2(DyOfInt(50), Math_ceil_div(blockHeight, HALVING_INTERVAL))

getCurrentBlockReward_mul(blockHeight) ==
    DyDivPow2(DyOfInt(50), -Math_floor_div(blockHeight, HALVING_INTERVAL))

getCurrentBlockReward(blockHeight) ==
    LET halvings == Math_floor_div(blockHeight, HALVING_INTERVAL)
    IN  DyDivPow2(DyOfInt(50), halvings)

\* const currentReward = 3.125
TRACKER_CURRENT_REWARD == DyDivPow2(DyOfInt(25), 3)

calculateDailyMining ==
    LET dailyBlocks == BLOCKS_PER_DAY_AVERAGE
        currentReward == TRACKER_CURRENT_REWARD
    IN  DyMul(DyOfInt(dailyBlocks), currentReward)

calculateDaysToCompletion(remainingBitcoin) ==
    LET dailyMining == calculateDailyMining
    IN  FxFloorDiv(remainingBitcoin, DyToInt(dailyMining))

\* new Date() is the ambient clock, in days; setDate(getDate() + days)
calculateCompletionDate(remainingBitcoin) ==
    LET days == calculateDaysToCompletion(remainingBitcoin)
        futureDate == clock
    IN  futureDate + days

calculateNextHalving(blockHeight) ==
    LET nextHalvingBlock ==
            Math_ceil_div(blockHeight, HALVING_INTERVAL) * HALVING_INTERVAL
        blocksUntilHalving == nextHalvingBlock - blockHeight
        daysUntilHalving ==
            Math_floor_div(blocksUntilHalving, BLOCKS_PER_DAY_AVERAGE)
        halvingDate == clock
    IN  [nextHalvingBlock |-> nextHalvingBlock,
         blocksUntilHalving |-> blocksUntilHalving,
         daysUntilHalving |-> daysUntilHalving,
         estimatedDate |-> halvingDate + daysUntilHalving]

\* stats.n_blocks_total || 850000: 0 is falsy
OrDefaultHeight(n_blocks_total) ==
    IF n_blocks_total = 0 THEN DEFAULT_BLOCK_HEIGHT ELSE n_blocks_total

Threw(message) == [status |-> "error", error |-> message]

\* x / n rounded to the nearest integer, halves up, for a decimal x >= 0:
\* the digits toFixed prints
FxRoundDiv(a, n) ==
    LET q == a.whole \div n
        r == a.whole % n
        up == \/ 2 * r > n
              \/ 2 * r = n
              \/ 2 * r = n - 1 /\ 2 * a.frac >= SATOSHIS_PER_BITCOIN
    IN  IF up THEN q + 1 ELSE q

percentageMined_per1000(totalBitcoinMined) ==
    FxRoundDiv(totalBitcoinMined, 210)

\* ((totalBitcoinMined / 21000000) * 100).toFixed(4), in units of 0.0001 %
percentageMined(totalBitcoinMined) ==
    FxRoundDiv(totalBitcoinMined, 21)

\* resp: what the fetch of blockchain.info/stats gave, [ok |-> FALSE] when it
\* failed
fetchBlockchainData(resp) ==
    IF ~resp.ok THEN Threw("fetch failed")
    ELSE
    LET stats == resp.stats
        totalBitcoinMined == FxOfSatoshis(stats.totalbc)
        remainingBitcoin == FxSubFromInt(TOTAL_BITCOIN_SUPPLY, totalBitcoinMined)
        height == OrDefaultHeight(stats.n_blocks_total)
    IN  Ok([summary |->
                [totalBitcoinMined |-> FxFloor(totalBitcoinMined),
                 remainingBitcoin |-> FxFloor(remainingBitcoin),
                 percentageMined |-> percentageMined(totalBitcoinMined),
                 estimatedDaysToCompletion |->
                     calculateDaysToCompletion(remainingBitcoin)],
            current |->
                [currentBlockHeight |-> height,
                 totalBitcoinsInCirculation |-> FxFloor(totalBitcoinMined),
                 currentBlockReward |-> getCurrentBlockReward(height)],
            daily |->
                [bitcoinMinedLast24h |-> calculateDailyMining,
                 blocksMinedLast24h |-> BLOCKS_PER_DAY_AVERAGE],
            remaining |->
                [remainingBitcoin |-> FxFloor(remainingBitcoin),
                 percentageMined |-> percentageMined(totalBitcoinMined),
                 estimatedCompletionDate |->
                     calculateCompletionDate(remainingBitcoin),
                 nextHalvingEstimate |-> calculateNextHalving(height)]])

(***************************************************************************)
(* BitcoinDataService (the server's service).                              *)
(***************************************************************************)
\* this.currentBlockReward = 6.25
SERVICE_CURRENT_REWARD == DyDivPow2(DyOfInt(25), 2)

\* resp: the two upstream answers, /q/bcperblock and /stats, or
\* [ok |-> FALSE] when either request failed
getCurrentStats(resp) ==
    IF ~resp.ok THEN Threw("Failed to fetch current Bitcoin statistics")
    ELSE
    LET currentBlockReward == FxOfSatoshis(resp.bcperblock)
        stats == resp.stats
    IN  Ok([currentBlockHeight |-> stats.n_blocks_total,
            totalBitcoinsInCirculation |-> FxOfSatoshis(stats.totalbc),
            currentBlockReward |-> currentBlockReward])

getEstimatedDailyData ==
    LET estimatedBlocks == BLOCKS_PER_DAY_AVERAGE
        estimatedBitcoin == DyMul(DyOfInt(estimatedBlocks), SERVICE_CURRENT_REWARD)
    IN  [date |-> clock,
         blocksMinedLast24h |-> estimatedBlocks,
         bitcoinMinedLast24h |-> estimatedBitcoin,
         averageBlockTime |-> <<10, 1>>,
         isEstimated |-> TRUE]

\* resp: the answer of /blocks/<oneDayAgo>, nblocks the length of its block
\* list, or [ok |-> FALSE] when the request failed.  averageBlockTime is the
\* fraction <<minutes, blocks>>.
getDailyMiningData(resp) ==
    IF ~resp.ok THEN Ok(getEstimatedDailyData)
    ELSE
    LET totalBlocks == resp.nblocks
        totalBitcoinMined == DyMul(DyOfInt(totalBlocks), SERVICE_CURRENT_REWARD)
    IN  Ok([date |-> clock,
            blocksMinedLast24h |-> totalBlocks,
            bitcoinMinedLast24h |-> totalBitcoinMined,
            averageBlockTime |->
                IF totalBlocks > 0 THEN <<24 * 60, totalBlocks>> ELSE <<10, 1>>,
            isEstimated |-> FALSE])

\* setDate(getDate() + days) keeps the whole days of its argument;
\* Math.round(blocks / 144) rounds half up
getNextHalvingEstimate(currentBlockHeight) ==
    LET nextHalvingBlock ==
            Math_ceil_div(currentBlockHeight, HALVING_INTERVAL) * HALVING_INTERVAL
        blocksUntilHalving == nextHalvingBlock - currentBlockHeight
        halvingDate == clock
    IN  [nextHalvingBlock |-> nextHalvingBlock,
         blocksUntilHalving |-> blocksUntilHalving,
         daysUntilHalving |->
             Math_floor_div(2 * blocksUntilHalving + BLOCKS_PER_DAY_AVERAGE,
                            2 * BLOCKS_PER_DAY_AVERAGE),
         estimatedDate |->
             halvingDate
                 + Math_floor_div(blocksUntilHalving, BLOCKS_PER_DAY_AVERAGE),
         currentReward |-> SERVICE_CURRENT_REWARD,
         nextReward |-> DyHalf(SERVICE_CURRENT_REWARD)]

\* remaining / 6.25 / 144 days from today: the whole days of the quotient
getRemainingBitcoin(resp) ==
    LET got == getCurrentStats(resp)
    IN  IF got.status = "error"
        THEN Threw("Failed to calculate remaining Bitcoin")
        ELSE
        LET currentStats == got.value
            remaining ==
                FxSubFromInt(TOTAL_BITCOIN_SUPPLY,
                             currentStats.totalBitcoinsInCirculation)
            blocksPerBitcoinDay ==
                DyToInt(DyMul(SERVICE_CURRENT_REWARD,
                              DyOfInt(BLOCKS_PER_DAY_AVERAGE)))
            daysRemaining == FxFloorDiv(remaining, blocksPerBitcoinDay)
            estimatedCompletionDate == clock
        IN  Ok([totalSupply |-> TOTAL_BITCOIN_SUPPLY,
                currentSupply |-> currentStats.totalBitcoinsInCirculation,
                remainingBitcoin |-> remaining,
                estimatedCompletionDate |->
                    estimatedCompletionDate + daysRemaining,
                currentBlockReward |-> SERVICE_CURRENT_REWARD,
                nextHalvingEstimate |->
                    getNextHalvingEstimate(currentStats.currentBlockHeight)])

\* Math.round((remainingBitcoin / 6.25) / 144), Math.round rounding half up
summaryDaysToCompletion(remainingBitcoin) ==
    LET bitcoinPerDay ==
            DyToInt(DyMul(SERVICE_CURRENT_REWARD,
                          DyOfInt(BLOCKS_PER_DAY_AVERAGE)))
    IN  Math_floor_div(2 * remainingBitcoin.whole + bitcoinPerDay,
                       2 * bitcoinPerDay)

getMiningSummary_observedHalving(respCurrent, respDaily, respRemaining) ==
    LET currentStats == getCurrentStats(respCurrent)
        dailyData == getDailyMiningData(respDaily)
        remainingData == getRemainingBitcoin(respRemaining)
        observed == dailyData.value.blocksMinedLast24h
        blocksPerDay == IF observed > 0 THEN observed ELSE BLOCKS_PER_DAY_AVERAGE
        halving == remainingData.value.nextHalvingEstimate
    IN  IF currentStats.status = "error" \/ remainingData.status = "error"
        THEN Threw("Failed to get mining summary")
        ELSE Ok([current |-> currentStats.value,
                 daily |-> dailyData.value,
                 remaining |->
                     [remainingData.value EXCEPT
                         !.nextHalvingEstimate.daysUntilHalving =
                             Math_floor_div(
                                 2 * halving.blocksUntilHalving + blocksPerDay,
                                 2 * blocksPerDay)],
                 summary |->
                     [bitcoinMinedToday |-> dailyData.value.bitcoinMinedLast24h,
                      bitcoinRemaining |-> remainingData.value.remainingBitcoin,
                      estimatedDaysToCompletion |->
                          summaryDaysToCompletion(
                              remainingData.value.remainingBitcoin)]])

\* The three service calls of Promise.all each fetch for themselves:
\* respCurrent and respRemaining are the upstream answers to getCurrentStats
\* and to getRemainingBitcoin, respDaily the answer to getDailyMiningData.
getMiningSummary(respCurrent, respDaily, respRemaining) ==
    LET currentStats == getCurrentStats(respCurrent)
        dailyData == getDailyMiningData(respDaily)
        remainingData == getRemainingBitcoin(respRemaining)
    IN  IF currentStats.status = "error" \/ remainingData.status = "error"
        THEN Threw("Failed to get mining summary")
        ELSE Ok([current |-> currentStats.value,
                 daily |-> dailyData.value,
                 remaining |-> remainingData.value,
                 summary |->
                     [bitcoinMinedToday |-> dailyData.value.bitcoinMinedLast24h,
                      bitcoinRemaining |-> remainingData.value.remainingBitcoin,
                      estimatedDaysToCompletion |->
                          summaryDaysToCompletion(
                              remainingData.value.remainingBitcoin)]])

(***************************************************************************)
(* The serverless current-stats function's service (src/unnamed/part_005). *)
(***************************************************************************)
\* resp: the upstream answers /q/getblockcount and /stats, or [ok |-> FALSE]
\* when either request failed; percentageMined is toFixed(2), in units of
\* 0.01 %
fn_getCurrentStats(resp) ==
    IF ~resp.ok THEN Threw("Failed to fetch current Bitcoin statistics")
    ELSE
    LET currentBlockHeight == resp.blockcount
        stats == resp.stats
        totalBitcoinMined == FxOfSatoshis(stats.totalbc)
        remainingBitcoin == FxSubFromInt(TOTAL_BITCOIN_SUPPLY, totalBitcoinMined)
    IN  Ok([currentBlockHeight |-> currentBlockHeight,
            totalBitcoinMined |-> FxFloor(totalBitcoinMined),
            remainingBitcoin |-> FxFloor(remainingBitcoin),
            percentageMined |->
                FxRoundDiv(totalBitcoinMined, TOTAL_BITCOIN_SUPPLY \div 10000)])

(***************************************************************************)
(* The serverless mining-summary function's service.                       *)
(***************************************************************************)
getMiningData(resp) ==
    IF ~resp.ok THEN Threw("Failed to fetch mining data")
    ELSE
    LET stats == resp.stats
        totalBitcoinMined == FxOfSatoshis(stats.totalbc)
        remainingBitcoin == FxSubFromInt(TOTAL_BITCOIN_SUPPLY, totalBitcoinMined)
        dailyBlocks == BLOCKS_PER_DAY_AVERAGE
        dailyBitcoinMined == DyMul(DyOfInt(dailyBlocks), SERVICE_CURRENT_REWARD)
    IN  Ok([totalBitcoinMined |-> FxFloor(totalBitcoinMined),
            remainingBitcoin |-> FxFloor(remainingBitcoin),
            dailyBitcoinMined |-> dailyBitcoinMined,
            estimatedDaysUntilAllMined |->
                FxFloorDiv(remainingBitcoin, DyToInt(dailyBitcoinMined)),
            currentBlockReward |-> SERVICE_CURRENT_REWARD])

(***************************************************************************)
(* Inputs.                                                                 *)
(***************************************************************************)
EpochOffsets == {0, HALVING_INTERVAL - 1}

RewardHeights ==
    {e * HALVING_INTERVAL + o : e \in 0..MaxEpoch, o \in EpochOffsets}
        \cup {926444, -1, -HALVING_INTERVAL}

\* block heights an upstream stats response carries
StatsHeights == {0, 209999, 210000, 926444, 1050000}

Sat(hi, lo) == [hi |-> hi, lo |-> lo]

\* satoshi counts an upstream stats response carries, hi * 10^8 + lo
SatoshiCounts ==
    {Sat(0, 0), Sat(19957621, 0), Sat(19957621, 50000000),
     Sat(20999999, 99999999), Sat(TOTAL_BITCOIN_SUPPLY, 0),
     Sat(TOTAL_BITCOIN_SUPPLY, 1), Sat(TOTAL_BITCOIN_SUPPLY + 1, 0)}

StatsResponses ==
    {[ok |-> FALSE]} \cup
    {[ok |-> TRUE, stats |-> [totalbc |-> t, n_blocks_total |-> h]] :
        t \in SatoshiCounts, h \in StatsHeights}

\* the two answers getCurrentStats awaits; /q/bcperblock is in satoshis
CurrentStatsResponses ==
    {[ok |-> FALSE]} \cup
    {[ok |-> TRUE, bcperblock |-> Sat(3, 12500000),
      stats |-> [totalbc |-> t, n_blocks_total |-> h]] :
        t \in SatoshiCounts, h \in StatsHeights}

\* lengths of the block list of the last 24 hours
ObservedBlockCounts == {0, 1, 143, 144, 150}

BlocksResponses ==
    {[ok |-> FALSE]} \cup {[ok |-> TRUE, nblocks |-> n] : n \in ObservedBlockCounts}

\* the answers the three service calls of one getMiningSummary get
SummaryStatsResponses ==
    {[ok |-> FALSE]} \cup
    {[ok |-> TRUE, bcperblock |-> Sat(3, 12500000),
      stats |-> [totalbc |-> t, n_blocks_total |-> h]] :
        t \in {Sat(19957621, 50000000)}, h \in {926444, 1050000}}

SummaryBlocksResponses ==
    {[ok |-> FALSE]} \cup {[ok |-> TRUE, nblocks |-> n] : n \in {0, 144, 150}}

\* the answers the serverless getCurrentStats gets
FnStatsResponses ==
    {[ok |-> FALSE]} \cup
    {[ok |-> TRUE, blockcount |-> 926444, stats |-> [totalbc |-> t]] :
        t \in SatoshiCounts \cup {Sat(10500000, 0)}}

NoCall == [op |-> "none"]

Call(op, args, ret) == [op |-> op, args |-> args, ret |-> ret]

(***************************************************************************)
(* The HTTP handlers: the Express routes of src/server.js and the          *)
(* serverless functions, each with the cache Map of its process.  A        *)
(* handler runs in two steps, up to its await and from it; in between      *)
(* other requests run.                                                     *)
(***************************************************************************)
\* const CACHE_DURATION = 5 * 60 * 1000, in steps of time
CACHE_DURATION == (5 * 60 * 1000) \div MsPerStep

Requests == 1..MaxRequests

\* app.get('/api/mining-summary'), app.get('/api/current-stats'); the routes
\* /api/daily-stats and /api/remaining run the same handler text over
\* getDailyMiningData and getRemainingBitcoin
ServerRoutes == {"/api/mining-summary", "/api/current-stats"}

\* app.get('/api/daily-stats')
DailyRoutes == {"/api/daily-stats"}

\* exports.handler of netlify/functions/current-stats.js, the two of
\* netlify/functions/mining-summary.js (lines 1 and 114), and of part_005
MockRoutes == {"current-stats.js", "mining-summary.js:1"}

FnRoutes == MockRoutes \cup {"mining-summary.js:114", "part_005"}

Methods == {"GET", "OPTIONS", "POST"}

cacheKey(route) ==
    IF route \in {"/api/mining-summary", "mining-summary.js:114"}
    THEN "mining-summary"
    ELSE IF route = "/api/daily-stats" THEN "daily-stats"
    ELSE "current-stats"

CacheKeys == {"mining-summary", "current-stats", "daily-stats"}

NoEntry == [data |-> "undefined"]

null == [null |-> TRUE]

\* an answer without content: body '', or none yet
NoBody == [body |-> ""]

getCachedData_inclusive(key) ==
    LET cached == cache[key]
    IN  IF cached # NoEntry /\ (now - cached.timestamp) <= CACHE_DURATION
        THEN cached.data ELSE null

getCachedData(key) ==
    LET cached == cache[key]
    IN  IF cached # NoEntry /\ (now - cached.timestamp) < CACHE_DURATION
        THEN cached.data ELSE null

setCachedData_keepFresh(key, data) ==
    IF getCachedData(key) # null THEN cache
    ELSE [cache EXCEPT ![key] = [data |-> data, timestamp |-> now]]

\* the cache Map after cache.set(key, {data, timestamp: Date.now()})
setCachedData(key, data) ==
    [cache EXCEPT ![key] = [data |-> data, timestamp |-> now]]

\* what the blockchain.info requests of one service call answer
UpstreamStats ==
    {[ok |-> FALSE]} \cup
    {[ok |-> TRUE, bcperblock |-> Sat(3, 12500000),
      stats |-> [totalbc |-> Sat(19957621, 50000000), n_blocks_total |-> h]] :
        h \in {926444, 926445}}

UpstreamBlocks == {[ok |-> FALSE], [ok |-> TRUE, nblocks |-> 150]}

\* the service call the handler of a route awaits
routeService(route, respStats, respBlocks) ==
    CASE route = "/api/mining-summary" ->
             getMiningSummary(respStats, respBlocks, respStats)
      [] route = "/api/current-stats" -> getCurrentStats(respStats)
      [] route = "/api/daily-stats" -> getDailyMiningData(respBlocks)
      [] route = "mining-summary.js:114" -> getMiningData(respStats)
      [] route = "part_005" ->
             fn_getCurrentStats(
                 IF respStats.ok
                 THEN [ok |-> TRUE,
                       blockcount |-> respStats.stats.n_blocks_total,
                       stats |-> respStats.stats]
                 ELSE respStats)

\* the upstream requests a route's service call makes, and whether one of
\* them failed
usesBlocks(route) == route \in {"/api/mining-summary", "/api/daily-stats"}

usesStats(route) == route # "/api/daily-stats"

upstreamFailed(route, respStats, respBlocks) ==
    \/ usesStats(route) /\ ~respStats.ok
    \/ usesBlocks(route) /\ ~respBlocks.ok

mockData(route) == [mock |-> route, percentageMined |-> 9405]

Idle == [pc |-> "idle"]

NoEvent == [phase |-> "none"]

(***************************************************************************)
(* The page: new BitcoinTracker() of src/unnamed/part_000 (app-enhanced.js *)
(* has the same init, loadRealTimeData and startAutoRefresh) or of         *)
(* src/public/app.js.                                                      *)
(***************************************************************************)
Scripts == {"part_000", "app.js"}

Loads == 1..MaxLoads

\* this.updateInterval = 5 * 60 * 1000
updateInterval == 5 * 60 * 1000

NoData == [source |-> "none"]

\* loadStaticData(): this.data of fixed figures (percentages in 0.0001 %)
StaticData ==
    IF script = "app.js"
    THEN [source |-> "static",
          summary |-> [totalBitcoinMined |-> 19750000,
                       remainingBitcoin |-> 1250000,
                       percentageMined |-> 940500,
                       estimatedDaysToCompletion |-> 1388],
          current |-> [currentBlockHeight |-> 850000]]
    ELSE [source |-> "static",
          summary |-> [totalBitcoinMined |-> 19957621,
                       remainingBitcoin |-> 1042379,
                       percentageMined |-> 950300,
                       estimatedDaysToCompletion |-> 23200],
          current |-> [currentBlockHeight |-> 926444],
          price |-> [current |-> 92025, currency |-> selectedCurrency]]

LiveData(value) == [source |-> "live", value |-> value]

\* this.data = {...blockchainData, price: priceData}
RealTimeData(blockchainData, priceData) ==
    [source |-> "live", value |-> blockchainData, price |-> priceData]

\* the values of the currencySelect element
Currencies == {"USD", "EUR"}

toLowerCase(s) == CASE s = "USD" -> "usd" [] s = "EUR" -> "eur"

\* what /simple/price?ids=bitcoin&vs_currencies=<currency> answers: the
\* price in the currency asked for, under the key of that currency
PriceResponses(currency) ==
    {[ok |-> FALSE],
     [ok |-> TRUE,
      bitcoin |-> [c \in {currency} |-> IF c = "usd" THEN 110000 ELSE 95000]]}

\* fetchPriceData() from its await: currency is the constant it took from
\* this.selectedCurrency before the request, this.selectedCurrency is read
\* again for the label
fetchPriceData(currency, resp) ==
    IF resp.ok
    THEN [current |-> resp.bitcoin[currency], currency |-> selectedCurrency]
    ELSE [current |-> 67000, currency |-> selectedCurrency]

\* a load at its await: who called it, the currency constant of its
\* fetchPriceData() and what that has returned
Awaiting(by, selected) ==
    [pc |-> "awaiting", by |-> by, currency |-> toLowerCase(selected),
     price |-> null, priceOk |-> FALSE]

InFlight == \E l \in Loads : loads[l].pc = "awaiting"

NoBatch == [last |-> 0, overlapped |-> FALSE, result |-> null]

\* what a load's requests answer: blockchain.info/stats to part_000,
\* /api/mining-summary of the server to app.js
PageStats ==
    {[ok |-> FALSE]} \cup
    {[ok |-> TRUE, bcperblock |-> Sat(3, 12500000),
      stats |-> [totalbc |-> Sat(19957621, 50000000), n_blocks_total |-> h]] :
        h \in {926445, 926446}}

\* the data a load fetched, or that it threw
loadResult(resp) ==
    IF script = "app.js"
    THEN getMiningSummary(resp, [ok |-> TRUE, nblocks |-> 144], resp)
    ELSE fetchBlockchainData(resp)

startAutoRefresh_twice ==
    timers \o <<[every |-> updateInterval], [every |-> updateInterval]>>

\* the timers after setInterval(..., this.updateInterval)
startAutoRefresh == Append(timers, [every |-> updateInterval])

(***************************************************************************)
(* Satoshi's rank among the billionaires (src/unnamed/part_000).  Wealth   *)
(* is in units of 10^8 dollars, which every figure of the built-in list    *)
(* and every net worth of a price in whole hundreds of dollars is a        *)
(* multiple of.                                                            *)
(***************************************************************************)
Billionaire(name, wealth, rank) ==
    [name |-> name, wealth |-> wealth, rank |-> rank]

getFallbackBillionaireData ==
    <<Billionaire("Elon Musk", 4390, 1),
      Billionaire("Jeff Bezos", 2430, 2),
      Billionaire("Mark Zuckerberg", 2240, 3),
      Billionaire("Larry Ellison", 1960, 4),
      Billionaire("Bernard Arnault", 1810, 5),
      Billionaire("Bill Gates", 1650, 6),
      Billionaire("Larry Page", 1580, 7),
      Billionaire("Sergey Brin", 1490, 8),
      Billionaire("Warren Buffett", 1430, 9),
      Billionaire("Steve Ballmer", 1450, 10)>>

\* what parseForbesData() makes of a fetched page: its rows in page order,
\* each with the wealth its text spells
ParsedLists ==
    {<<Billionaire("A", 2000, 1), Billionaire("B", 1000, 2)>>,
     <<Billionaire("A", 1000, 1), Billionaire("B", 2000, 2)>>,
     <<Billionaire("A", 1500, 1)>>}

\* null where a list is expected: fetchBillionaireData() takes null and the
\* empty list alike, and stores no empty list in localStorage
NoList == <<>>

\* cached: the list of localStorage younger than an hour, or none; forbes:
\* what tryFetchForbesData() returned, a list or none
fetchBillionaireData(cached, forbes) ==
    IF cached # NoList THEN cached
    ELSE IF forbes # NoList /\ Len(forbes) > 0 THEN forbes
    ELSE getFallbackBillionaireData

\* bitcoin prices in dollars
BitcoinPrices == {67000, 143000, 144500, 150000, 200000, 439000, 500000}

satoshiBitcoin == 1000000

\* satoshiBitcoin * bitcoinPrice dollars, in units of 10^8 dollars
satoshiNetWorthOf(bitcoinPrice) ==
    bitcoinPrice \div (100000000 \div satoshiBitcoin)

\* Array.prototype.sort((a, b) => b.wealth - a.wealth): descending, entries
\* of equal wealth in the order they had
sortByWealthDescending(list) ==
    LET n == Len(list)
        place(j) ==
            1 + Cardinality({k \in 1..n : list[k].wealth > list[j].wealth})
              + Cardinality({k \in 1..(j - 1) :
                                list[k].wealth = list[j].wealth})
    IN  [i \in 1..n |-> list[CHOOSE j \in 1..n : place(j) = i]]

\* the list updateWealthComparison() builds: the billionaires and Satoshi,
\* sorted and ranked, and the six entries it displays
updateWealthComparison(billionaires, satoshiNetWorth) ==
    LET satoshiEntry ==
            [name |-> "Satoshi Nakamoto", wealth |-> satoshiNetWorth,
             rank |-> 0, isSatoshi |-> TRUE]
        pushed ==
            Append([i \in 1..Len(billionaires) |->
                       [name |-> billionaires[i].name,
                        wealth |-> billionaires[i].wealth,
                        rank |-> billionaires[i].rank,
                        isSatoshi |-> FALSE]],
                   satoshiEntry)
        sorted == sortByWealthDescending(pushed)
        allBillionaires ==
            [i \in 1..Len(sorted) |-> [sorted[i] EXCEPT !.rank = i]]
        top == SubSeq(allBillionaires, 1,
                      IF Len(allBillionaires) < 6 THEN Len(allBillionaires)
                      ELSE 6)
        satoshiInTop6 == \E i \in 1..Len(top) : top[i].isSatoshi
        satoshiRanked ==
            allBillionaires[CHOOSE i \in 1..Len(allBillionaires) :
                                allBillionaires[i].isSatoshi]
    IN  [allBillionaires |-> allBillionaires,
         displayList |->
             IF satoshiInTop6 THEN top
             ELSE [top EXCEPT ![6] = satoshiRanked]]

\* '1st', '2nd', '3rd', '4th', '~11th', ...: whether the text starts with
\* '~', its number and its ending
RankText(approximate, number, ending) ==
    [approximate |-> approximate, number |-> number, ending |-> ending]

\* the loop counts the billionaires at the head of the list that are
\* wealthier than Satoshi and stops at the first that is not
calculateSatoshiRanking(billionaires, satoshiNetWorth) ==
    LET notWealthier ==
            {i \in 1..Len(billionaires) :
                ~(billionaires[i].wealth > satoshiNetWorth)}
        rank ==
            IF notWealthier = {} THEN Len(billionaires) + 1
            ELSE CHOOSE i \in notWealthier : \A k \in notWealthier : i <= k
    IN  IF rank = 1 THEN RankText(FALSE, 1, "st")
        ELSE IF rank = 2 THEN RankText(FALSE, 2, "nd")
        ELSE IF rank = 3 THEN RankText(FALSE, 3, "rd")
        ELSE IF rank <= 10 THEN RankText(FALSE, rank, "th")
        ELSE IF rank <= 20 THEN RankText(TRUE, rank, "th")
        ELSE IF rank <= 50 THEN RankText(TRUE, Math_ceil_div(rank, 5) * 5, "th")
        ELSE RankText(TRUE, Math_ceil_div(rank, 10) * 10, "th")

\* updateSatoshiNetWorth(bitcoinPrice, currency): the net worth, the list
\* fetched, the comparison built from it and the ranking shown
updateSatoshiNetWorth(bitcoinPrice, cached, forbes) ==
    LET netWorth == satoshiNetWorthOf(bitcoinPrice)
        billionaires == fetchBillionaireData(cached, forbes)
    IN  Ok([netWorth |-> netWorth,
            billionaires |-> billionaires,
            comparison |-> updateWealthComparison(billionaires, netWorth),
            ranking |-> calculateSatoshiRanking(billionaires, netWorth)])

Init ==
    /\ clock = 0
    /\ last = NoCall
    /\ prev = NoCall
    /\ now = 0
    /\ cache = [k \in CacheKeys |-> NoEntry]
    /\ req = [r \in Requests |-> Idle]
    /\ ev = NoEvent
    /\ wrote = [k \in CacheKeys |-> NoEntry]
    /\ watch = [k \in CacheKeys |-> -1]
    /\ script = "none"
    /\ initState = "none"
    /\ timers = <<>>
    /\ this_data = NoData
    /\ loading = FALSE
    /\ loads = [l \in Loads |-> Idle]
    /\ cev = NoEvent
    /\ selectedCurrency = "USD"
    /\ batch = NoBatch

\* a day passes on the ambient clock
Tick ==
    /\ clock < MaxDay
    /\ clock' = clock + 1
    /\ UNCHANGED <<last, prev>>
    /\ UNCHANGED <<serverVars, clientVars>>

\* A call returns: last becomes the call, prev the call before it when that
\* was a call of the same method (the claims compare two calls of one method).
PrevOf(op) == IF last.op = op THEN last ELSE NoCall

CallGetCurrentBlockReward ==
    \E h \in RewardHeights :
        /\ last' = Call("getCurrentBlockReward", [blockHeight |-> h],
                        Ok(getCurrentBlockReward(h)))
        /\ prev' = PrevOf("getCurrentBlockReward")
        /\ UNCHANGED clock
        /\ UNCHANGED <<serverVars, clientVars>>

CallCalculateNextHalving ==
    \E h \in StatsHeights :
        /\ last' = Call("calculateNextHalving", [blockHeight |-> h],
                        Ok(calculateNextHalving(h)))
        /\ prev' = PrevOf("calculateNextHalving")
        /\ UNCHANGED clock
        /\ UNCHANGED <<serverVars, clientVars>>

CallFetchBlockchainData ==
    \E resp \in StatsResponses :
        /\ last' = Call("fetchBlockchainData", resp, fetchBlockchainData(resp))
        /\ prev' = PrevOf("fetchBlockchainData")
        /\ UNCHANGED clock
        /\ UNCHANGED <<serverVars, clientVars>>

CallGetDailyMiningData ==
    \E resp \in BlocksResponses :
        /\ last' = Call("getDailyMiningData", resp, getDailyMiningData(resp))
        /\ prev' = PrevOf("getDailyMiningData")
        /\ UNCHANGED clock
        /\ UNCHANGED <<serverVars, clientVars>>

CallGetNextHalvingEstimate ==
    \E h \in StatsHeights :
        /\ last' = Call("getNextHalvingEstimate", [currentBlockHeight |-> h],
                        Ok(getNextHalvingEstimate(h)))
        /\ prev' = PrevOf("getNextHalvingEstimate")
        /\ UNCHANGED clock
        /\ UNCHANGED <<serverVars, clientVars>>

CallGetRemainingBitcoin ==
    \E resp \in CurrentStatsResponses :
        /\ last' = Call("getRemainingBitcoin", resp, getRemainingBitcoin(resp))
        /\ prev' = PrevOf("getRemainingBitcoin")
        /\ UNCHANGED clock
        /\ UNCHANGED <<serverVars, clientVars>>

CallGetMiningData ==
    \E resp \in StatsResponses :
        /\ last' = Call("getMiningData", resp, getMiningData(resp))
        /\ prev' = PrevOf("getMiningData")
        /\ UNCHANGED clock
        /\ UNCHANGED <<serverVars, clientVars>>

CallGetMiningSummary ==
    \E respCurrent \in SummaryStatsResponses,
       respDaily \in SummaryBlocksResponses,
       respRemaining \in SummaryStatsResponses :
        /\ last' = Call("getMiningSummary",
                        [current |-> respCurrent, daily |-> respDaily,
                         remaining |-> respRemaining],
                        getMiningSummary(respCurrent, respDaily, respRemaining))
        /\ prev' = PrevOf("getMiningSummary")
        /\ UNCHANGED clock
        /\ UNCHANGED <<serverVars, clientVars>>

CallFnGetCurrentStats ==
    \E resp \in FnStatsResponses :
        /\ last' = Call("fn_getCurrentStats", resp, fn_getCurrentStats(resp))
        /\ prev' = PrevOf("fn_getCurrentStats")
        /\ UNCHANGED clock
        /\ UNCHANGED <<serverVars, clientVars>>

Next ==
    \/ Tick
    \/ CallGetCurrentBlockReward
    \/ CallCalculateNextHalving
    \/ CallFetchBlockchainData
    \/ CallGetDailyMiningData
    \/ CallGetNextHalvingEstimate
    \/ CallGetRemainingBitcoin
    \/ CallGetMiningData
    \/ CallGetMiningSummary
    \/ CallFnGetCurrentStats

Spec == Init /\ [][Next]_vars

(***************************************************************************)
(* The handlers' steps.  ev is the step just taken: the request, what it   *)
(* was answered (status 0: no answer yet, the upstream call is awaited),   *)
(* whether the step called upstream, and the cache entry, the last stored  *)
(* entry and the watched fetch of its key before the step.  watch[k] is    *)
(* the time of the earliest successful upstream fetch for k after which no *)
(* request has yet come at or after its expiry.                            *)
(***************************************************************************)
Advance ==
    /\ now < MaxTime
    /\ now' = now + 1
    /\ UNCHANGED <<cache, req, ev, wrote, watch>>
    /\ UNCHANGED <<calcVars, clientVars>>

Racing(r, route) ==
    {o \in Requests \ {r} : req[o].pc = "awaiting" /\ req[o].route = route}

Event(phase, r, route, method, status, body, upstream, failed) ==
    [phase |-> phase, req |-> r, route |-> route, method |-> method,
     at |-> now, status |-> status, body |-> body, upstream |-> upstream,
     failed |-> failed,
     raced |-> IF phase = "resolve" THEN req[r].raced ELSE Racing(r, route) # {},
     entry |-> cache[cacheKey(route)],
     stored |-> wrote[cacheKey(route)],
     watched |-> watch[cacheKey(route)]]

\* the handler up to its await or, when it does not await, to its answer
HandlerBegin(r, route, method) ==
    LET key == cacheKey(route)
        data == getCachedData(key)
        answered(status, body) ==
            /\ ev' = Event("begin", r, route, method, status, body, FALSE, FALSE)
            /\ UNCHANGED req
    IN  /\ req[r].pc = "idle"
        /\ IF method = "OPTIONS" /\ route \in FnRoutes
              THEN answered(200, NoBody)
           ELSE IF method # "GET" /\ route \in MockRoutes
              THEN answered(405, [error |-> "Method not allowed"])
           ELSE IF route \in MockRoutes
              THEN answered(200, mockData(route))
           ELSE IF data # null
              THEN answered(200, data)
           ELSE /\ ev' = Event("begin", r, route, method, 0, NoBody, TRUE, FALSE)
                /\ req' = [o \in Requests |->
                              IF o = r
                              THEN [pc |-> "awaiting", route |-> route,
                                    method |-> method,
                                    raced |-> Racing(r, route) # {}]
                              ELSE IF o \in Racing(r, route)
                              THEN [req[o] EXCEPT !.raced = TRUE]
                              ELSE req[o]]
        /\ watch' = IF watch[key] >= 0 /\ now >= watch[key] + CACHE_DURATION
                        /\ route \notin MockRoutes /\ method = "GET"
                     THEN [watch EXCEPT ![key] = -1] ELSE watch
        /\ UNCHANGED <<now, cache, wrote>>
        /\ UNCHANGED <<calcVars, clientVars>>

\* the handler from its await: the service call returned or threw
HandlerResolve(r, respStats, respBlocks) ==
    LET route == req[r].route
        key == cacheKey(route)
        result == routeService(route, respStats, respBlocks)
        failed == upstreamFailed(route, respStats, respBlocks)
    IN  /\ req[r].pc = "awaiting"
        /\ IF result.status = "ok"
           THEN /\ cache' = setCachedData(key, result.value)
                /\ wrote' = [wrote EXCEPT
                                ![key] = [data |-> result.value,
                                          timestamp |-> now]]
                /\ watch' = IF ~failed /\ watch[key] < 0
                             THEN [watch EXCEPT ![key] = now] ELSE watch
                /\ ev' = Event("resolve", r, route, req[r].method, 200,
                               result.value, FALSE, failed)
           ELSE /\ ev' = Event("resolve", r, route, req[r].method, 500,
                               [error |-> result.error], FALSE, failed)
                /\ UNCHANGED <<cache, wrote, watch>>
        /\ req' = [req EXCEPT ![r] = Idle]
        /\ UNCHANGED now
        /\ UNCHANGED <<calcVars, clientVars>>

ServerRequest ==
    \E r \in Requests, route \in ServerRoutes : HandlerBegin(r, route, "GET")

FnRequest ==
    \E r \in Requests, route \in FnRoutes, method \in Methods :
        HandlerBegin(r, route, method)

UpstreamAnswers ==
    \E r \in Requests, respStats \in UpstreamStats,
       respBlocks \in UpstreamBlocks :
        HandlerResolve(r, respStats, respBlocks)

NextServer == Advance \/ ServerRequest \/ UpstreamAnswers

SpecServer == Init /\ [][NextServer]_vars

DailyRequest ==
    \E r \in Requests, route \in DailyRoutes : HandlerBegin(r, route, "GET")

NextDaily == Advance \/ DailyRequest \/ UpstreamAnswers

SpecDaily == Init /\ [][NextDaily]_vars

NextFn == Advance \/ FnRequest \/ UpstreamAnswers

SpecFn == Init /\ [][NextFn]_vars

(***************************************************************************)
(* The page's steps.  cev is the step just taken: for a settled load, who  *)
(* started it, whether its fetch failed and the data shown before; for a   *)
(* timer tick, whether the step before it was a failed refresh.            *)
(***************************************************************************)
PageEvent(phase, by, failed) ==
    [phase |-> phase, by |-> by, failed |-> failed, before |-> this_data,
     afterFailed |-> cev.phase = "settled" /\ cev.by = "timer" /\ cev.failed]

\* a call of loadRealTimeData() / loadData() up to its await, in the free
\* slot l; selected is this.selectedCurrency at the call
StartLoad(l, by, selected) ==
    /\ loads[l].pc = "idle"
    /\ loads' = [loads EXCEPT ![l] = Awaiting(by, selected)]
    /\ batch' = [last |-> l, overlapped |-> InFlight, result |-> null]

\* new BitcoinTracker(): the constructor calls init(), which runs to its
\* first await (part_000) or to its end (app.js); chartOk: new Chart(...)
\* does not throw
PageLoad(s, chartOk) ==
    /\ script = "none"
    /\ script' = s
    /\ cev' = PageEvent("construct", "init", FALSE)
    /\ IF s = "part_000"
       THEN /\ loading' = TRUE
            /\ StartLoad(1, "init", selectedCurrency)
            /\ initState' = "awaiting"
            /\ UNCHANGED <<timers, this_data>>
       ELSE /\ this_data' = StaticData'
            /\ IF chartOk
               THEN /\ timers' = startAutoRefresh
                    /\ loading' = FALSE
                    /\ initState' = "ok"
               ELSE /\ initState' = "failed"
                    /\ UNCHANGED <<timers, loading>>
            /\ UNCHANGED <<loads, batch>>
    /\ UNCHANGED selectedCurrency
    /\ UNCHANGED <<calcVars, serverVars>>

\* the callback of setInterval: loadRealTimeData() up to its await
\* (part_000), loadData() up to its await (app.js)
TimerTick(i, l) ==
    /\ i \in 1..Len(timers)
    /\ StartLoad(l, "timer", selectedCurrency)
    /\ loading' = IF script = "part_000" THEN TRUE ELSE loading
    /\ cev' = PageEvent("tick", "timer", FALSE)
    /\ UNCHANGED <<script, initState, timers, this_data, selectedCurrency>>
    /\ UNCHANGED <<calcVars, serverVars>>

\* a click on refreshBtn: loadRealTimeData() up to its await
RefreshClick(l) ==
    /\ script = "part_000"
    /\ StartLoad(l, "button", selectedCurrency)
    /\ loading' = TRUE
    /\ cev' = PageEvent("click", "button", FALSE)
    /\ UNCHANGED <<script, initState, timers, this_data, selectedCurrency>>
    /\ UNCHANGED <<calcVars, serverVars>>

\* a change of currencySelect to c: this.selectedCurrency = e.target.value,
\* then loadRealTimeData() up to its await
CurrencyChange(c, l) ==
    /\ script = "part_000"
    /\ c # selectedCurrency
    /\ selectedCurrency' = c
    /\ StartLoad(l, "currency", c)
    /\ loading' = TRUE
    /\ cev' = PageEvent("change", "currency", FALSE)
    /\ UNCHANGED <<script, initState, timers, this_data>>
    /\ UNCHANGED <<calcVars, serverVars>>

\* fetchPriceData() of the load l from its await to its return
PriceSettles(l, resp) ==
    /\ script = "part_000"
    /\ loads[l].pc = "awaiting"
    /\ loads[l].price = null
    /\ loads' = [loads EXCEPT
                    ![l].price = fetchPriceData(loads[l].currency, resp),
                    ![l].priceOk = resp.ok]
    /\ cev' = PageEvent("price", loads[l].by, ~resp.ok)
    /\ UNCHANGED <<script, initState, timers, this_data, loading,
                   selectedCurrency, batch>>
    /\ UNCHANGED <<calcVars, serverVars>>

\* a load from its await: loadRealTimeData() of part_000 with, for the load
\* of init(), the rest of init(); loadData() of app.js with the rest of the
\* timer callback.  Promise.all of part_000 is fulfilled when both fetches
\* have returned and rejected as soon as fetchBlockchainData() throws.
LoadSettles(l, resp, chartOk) ==
    LET result == loadResult(resp)
        failed == result.status = "error"
        loaded == IF failed THEN StaticData
                  ELSE RealTimeData(result.value, loads[l].price)
        came == IF script = "part_000" THEN loaded
                ELSE IF failed THEN this_data ELSE LiveData(result.value)
    IN  /\ loads[l].pc = "awaiting"
        /\ script = "part_000" => (failed \/ loads[l].price # null)
        /\ loads' = [loads EXCEPT ![l] = Idle]
        /\ batch' = IF l = batch.last THEN [batch EXCEPT !.result = came]
                    ELSE batch
        /\ cev' = PageEvent("settled", loads[l].by, failed)
        /\ IF script = "app.js"
           THEN /\ this_data' = IF failed THEN this_data ELSE LiveData(result.value)
                /\ UNCHANGED <<initState, timers, loading>>
           ELSE /\ loading' = FALSE
                /\ IF loads[l].by # "init"
                   THEN /\ this_data' = loaded
                        /\ UNCHANGED <<initState, timers>>
                   ELSE IF chartOk
                   THEN /\ this_data' = loaded
                        /\ timers' = startAutoRefresh
                        /\ initState' = "ok"
                   ELSE /\ this_data' = StaticData
                        /\ initState' = "failed"
                        /\ UNCHANGED timers
        /\ UNCHANGED <<script, selectedCurrency>>
        /\ UNCHANGED <<calcVars, serverVars>>

PageOpens == \E s \in Scripts, chartOk \in BOOLEAN : PageLoad(s, chartOk)

TimerFires == \E i \in 1..Len(timers), l \in Loads : TimerTick(i, l)

RefreshClicked == \E l \in Loads : RefreshClick(l)

CurrencyChanged == \E c \in Currencies, l \in Loads : CurrencyChange(c, l)

PriceAnswers ==
    \E l \in {k \in Loads : loads[k].pc = "awaiting"} :
        \E resp \in PriceResponses(loads[l].currency) : PriceSettles(l, resp)

LoadAnswers ==
    \E l \in Loads, resp \in PageStats, chartOk \in BOOLEAN :
        LoadSettles(l, resp, chartOk)

NextClient ==
    \/ PageOpens
    \/ TimerFires
    \/ RefreshClicked
    \/ CurrencyChanged
    \/ PriceAnswers
    \/ LoadAnswers

SpecClient == Init /\ [][NextClient]_vars

(***************************************************************************)
(* The wealth comparison of the page: updateSatoshiNetWorth() is called    *)
(* with a price, whatever list the browser has cached or can fetch.        *)
(***************************************************************************)
CallUpdateSatoshiNetWorth ==
    \E bitcoinPrice \in BitcoinPrices,
       cached \in {NoList} \cup ParsedLists \cup {getFallbackBillionaireData},
       forbes \in {NoList} \cup ParsedLists :
        /\ last' = Call("updateSatoshiNetWorth",
                        [bitcoinPrice |-> bitcoinPrice, cached |-> cached,
                         forbes |-> forbes],
                        updateSatoshiNetWorth(bitcoinPrice, cached, forbes))
        /\ prev' = NoCall
        /\ UNCHANGED clock
        /\ UNCHANGED <<serverVars, clientVars>>

NextWealth == CallUpdateSatoshiNetWorth

SpecWealth == Init /\ [][NextWealth]_vars

(***************************************************************************)
(* What the claims are stated with.                                        *)
(***************************************************************************)
IsCall(c, op) == c.op = op

Returned(c, op) == c.op = op /\ c.ret.status = "ok"

\* the halving epoch of a height h >= 0, by its defining inequality
EpochOf(h) ==
    CHOOSE k \in 0..(MaxEpoch + 1) :
        k * HALVING_INTERVAL <= h /\ h < (k + 1) * HALVING_INTERVAL

\* r halved k times: each halving of m * 2^e with m odd takes 1 from e
HalvedTimes(r, k) ==
    IF r.m = 0 THEN r ELSE [m |-> r.m, e |-> r.e - k]

\* a satoshi count (two limbs) halved k times, rounding down each time: the
\* reward in whole satoshis
\* (four halvings at a time: rounding down after each halving is rounding
\* down after the four)
RECURSIVE SatoshisHalved(_, _)
SatoshisHalved(sat, k) ==
    IF k = 0 THEN sat
    ELSE LET j == IF k < 4 THEN k ELSE 4
             d == Pow2(j)
         IN  SatoshisHalved(
                 Sat(sat.hi \div d,
                     (sat.lo + (sat.hi % d) * SATOSHIS_PER_BITCOIN) \div d),
                 k - j)

\* the sum of two decimal values
FxAdd(a, b) ==
    IF a.frac + b.frac >= SATOSHIS_PER_BITCOIN
    THEN Fx(a.whole + b.whole + 1, a.frac + b.frac - SATOSHIS_PER_BITCOIN)
    ELSE Fx(a.whole + b.whole, a.frac + b.frac)

\* totalSatoshisMined <= 21,000,000 * 10^8
WithinSupply(sat) ==
    \/ sat.hi < TOTAL_BITCOIN_SUPPLY
    \/ sat.hi = TOTAL_BITCOIN_SUPPLY /\ sat.lo = 0

(***************************************************************************)
(* C1.  For every block height h >= 0, getCurrentBlockReward(h) is 50 BTC  *)
(* halved once per completed interval of 210,000 blocks; it is 50 at       *)
(* height 0, 25 at 210000, 6.25 at 630000 and 3.125 at 840000.             *)
(***************************************************************************)
C1_RewardIsFiftyHalvedPerEpoch ==
    (IsCall(last, "getCurrentBlockReward") /\ last.args.blockHeight >= 0) =>
        LET h == last.args.blockHeight
            r == last.ret
        IN  /\ r.status = "ok"
            /\ r.value = HalvedTimes(DyOfInt(50), EpochOf(h))
            /\ h = 0 => r.value = [m |-> 25, e |-> 1]
            /\ h = 210000 => r.value = [m |-> 25, e |-> 0]
            /\ h = 630000 => r.value = [m |-> 25, e |-> -2]
            /\ h = 840000 => r.value = [m |-> 25, e |-> -3]

\* the reward of height 840000 has been asked for and is 3.125
C1_Witness ==
    /\ IsCall(last, "getCurrentBlockReward")
    /\ last.args.blockHeight = 840000
    /\ last.ret.value = [m |-> 25, e |-> -3]

(***************************************************************************)
(* C2.  For every totalSatoshisMined in [0, 21,000,000 * 10^8], the        *)
(* circulating supply and the remaining supply the program reports sum to  *)
(* exactly 21,000,000 BTC, also when the count is no whole number of BTC.  *)
(***************************************************************************)
C2_ReportedSuppliesSumToTotal ==
    /\ (Returned(last, "fetchBlockchainData")
            /\ WithinSupply(last.args.stats.totalbc)) =>
           last.ret.value.summary.totalBitcoinMined
               + last.ret.value.summary.remainingBitcoin = TOTAL_BITCOIN_SUPPLY
    /\ (Returned(last, "getMiningData")
            /\ WithinSupply(last.args.stats.totalbc)) =>
           last.ret.value.totalBitcoinMined
               + last.ret.value.remainingBitcoin = TOTAL_BITCOIN_SUPPLY
    /\ (Returned(last, "getRemainingBitcoin")
            /\ WithinSupply(last.args.stats.totalbc)) =>
           FxAdd(last.ret.value.currentSupply, last.ret.value.remainingBitcoin)
               = Fx(TOTAL_BITCOIN_SUPPLY, 0)

(***************************************************************************)
(* C3.  For every height h >= 0 the next halving height is the smallest    *)
(* multiple of 210,000 strictly greater than h, so blocksUntilHalving is   *)
(* between 1 and 210,000; at h = 210000 it is 420000.                      *)
(***************************************************************************)
NextHalvingIsStrictlyAhead(c) ==
    LET h == IF IsCall(c, "calculateNextHalving")
             THEN c.args.blockHeight ELSE c.args.currentBlockHeight
        est == c.ret.value
    IN  h >= 0 =>
            /\ est.nextHalvingBlock % HALVING_INTERVAL = 0
            /\ est.nextHalvingBlock > h
            /\ est.nextHalvingBlock - HALVING_INTERVAL <= h
            /\ est.blocksUntilHalving \in 1..HALVING_INTERVAL
            /\ h = 210000 => est.nextHalvingBlock = 420000

C3_NextHalvingStrictlyGreater ==
    (IsCall(last, "calculateNextHalving") \/ IsCall(last, "getNextHalvingEstimate"))
        => NextHalvingIsStrictlyAhead(last)

(***************************************************************************)
(* C4.  When the raw stats claim more than 21,000,000 * 10^8 satoshis      *)
(* mined, computing the projection fails with SupplyInvariantViolated: no  *)
(* negative remaining supply or negative days are produced.                *)
(***************************************************************************)
ProjectionMethods == {"fetchBlockchainData", "getRemainingBitcoin", "getMiningData"}

C4_ExcessSupplyIsRejected ==
    (last.op \in ProjectionMethods /\ last.args.ok
            /\ ~WithinSupply(last.args.stats.totalbc)) =>
        /\ last.ret.status = "error"
        /\ last.ret.error = "SupplyInvariantViolated"

(***************************************************************************)
(* C5.  For every block height, the daily mining rate the program reports  *)
(* is blocksPerDay times the block reward derived from that same height.   *)
(***************************************************************************)
C5_DailyRateUsesRewardOfHeight ==
    Returned(last, "fetchBlockchainData") =>
        LET data == last.ret.value
        IN  data.daily.bitcoinMinedLast24h =
                DyMul(DyOfInt(data.daily.blocksMinedLast24h),
                      data.current.currentBlockReward)

(***************************************************************************)
(* C6.  Computing the projection twice from identical raw stats yields     *)
(* identical output: the estimated exhaustion date and halving date        *)
(* depend only on the explicit inputs, not on an ambient clock.            *)
(***************************************************************************)
DatedMethods ==
    {"fetchBlockchainData", "calculateNextHalving", "getRemainingBitcoin",
     "getNextHalvingEstimate"}

C6_SameInputsSameProjection ==
    (last.op \in DatedMethods /\ prev.op = last.op /\ prev.args = last.args)
        => prev.ret = last.ret

(***************************************************************************)
(* C7.  For all heights 0 <= h1 <= h2, the reward of h1 is at least the    *)
(* reward of h2, which is at least 0.                                      *)
(***************************************************************************)
C7_RewardNonIncreasing ==
    (IsCall(prev, "getCurrentBlockReward") /\ IsCall(last, "getCurrentBlockReward")
            /\ 0 <= prev.args.blockHeight
            /\ prev.args.blockHeight <= last.args.blockHeight) =>
        /\ last.ret.value.m >= 0
        /\ prev.ret.value.m >= 0
        /\ DyLeq(last.ret.value, prev.ret.value)

\* two successive calls across the first halving: the reward went down
C7_Witness ==
    /\ IsCall(prev, "getCurrentBlockReward")
    /\ IsCall(last, "getCurrentBlockReward")
    /\ prev.args.blockHeight = HALVING_INTERVAL - 1
    /\ last.args.blockHeight = HALVING_INTERVAL
    /\ ~DyLeq(prev.ret.value, last.ret.value)

(***************************************************************************)
(* C8.  getCurrentBlockReward returns exactly 0 for every height whose     *)
(* halving count makes the reward in whole satoshis,                       *)
(* 5,000,000,000 / 2^halvings, come to 0.                                  *)
(***************************************************************************)
C8_RewardUnderflowsToZero ==
    (IsCall(last, "getCurrentBlockReward") /\ last.args.blockHeight >= 0
            /\ SatoshisHalved(Sat(50, 0), EpochOf(last.args.blockHeight))
                   = Sat(0, 0)) =>
        last.ret.value = DyZero

(***************************************************************************)
(* C9.  getCurrentBlockReward with a negative height is rejected with      *)
(* InvalidInput: no reward is returned for a negative height.              *)
(***************************************************************************)
C9_NegativeHeightIsRejected ==
    (IsCall(last, "getCurrentBlockReward") /\ last.args.blockHeight < 0) =>
        /\ last.ret.status = "error"
        /\ last.ret.error = "InvalidInput"

(***************************************************************************)
(* C10.  The blocks-per-day figure of the daily mining rate is the         *)
(* observed 24-hour block count when it is present and greater than 0,     *)
(* and 144 otherwise; an observed count of 0 never gives a daily rate      *)
(* of 0.                                                                   *)
(***************************************************************************)
C10_ObservedCountOrAverage ==
    Returned(last, "getDailyMiningData") =>
        LET resp == last.args
            blocksPerDay ==
                IF resp.ok /\ resp.nblocks > 0
                THEN resp.nblocks ELSE BLOCKS_PER_DAY_AVERAGE
        IN  /\ last.ret.value.blocksMinedLast24h = blocksPerDay
            /\ last.ret.value.bitcoinMinedLast24h # DyZero

(***************************************************************************)
(* C11.  The estimated days to exhaustion of a mining summary are the      *)
(* reported remaining supply divided by the daily mining rate reported in  *)
(* the same projection (to within one day, the figure being whole days),   *)
(* whenever that rate is greater than 0.                                   *)
(***************************************************************************)
\* days is remaining / rate to within one day; rate4 is four times the rate
WithinADayOfQuotient(days, remaining, rate4) ==
    LET floor4 == 4 * remaining.whole + (4 * remaining.frac) \div SATOSHIS_PER_BITCOIN
        ceil4 == 4 * remaining.whole
                     - ((-(4 * remaining.frac)) \div SATOSHIS_PER_BITCOIN)
    IN  /\ rate4 * (days - 1) < ceil4
        /\ floor4 < rate4 * (days + 1)

TimesFour(rate) == DyToInt(DyMul(rate, DyOfInt(4)))

C11_DaysAreRemainingOverReportedRate ==
    /\ Returned(last, "getMiningSummary") =>
           LET summary == last.ret.value.summary
               rate4 == TimesFour(summary.bitcoinMinedToday)
           IN  rate4 > 0 =>
                   WithinADayOfQuotient(summary.estimatedDaysToCompletion,
                                        summary.bitcoinRemaining, rate4)
    /\ Returned(last, "fetchBlockchainData")
            /\ WithinSupply(last.args.stats.totalbc) =>
           LET data == last.ret.value
               rate4 == TimesFour(data.daily.bitcoinMinedLast24h)
           IN  rate4 > 0 =>
                   WithinADayOfQuotient(data.summary.estimatedDaysToCompletion,
                                        Fx(data.summary.remainingBitcoin, 0),
                                        rate4)

(***************************************************************************)
(* C12.  In a next-halving estimate the reward before the halving is the   *)
(* block reward of the current height, and the reward after it is exactly  *)
(* half of that, for every height.                                         *)
(***************************************************************************)
C12_HalvingRewardsFollowHeight ==
    (Returned(last, "getNextHalvingEstimate")
            /\ last.args.currentBlockHeight >= 0) =>
        LET est == last.ret.value
            rewardOfHeight ==
                HalvedTimes(DyOfInt(50), EpochOf(last.args.currentBlockHeight))
        IN  /\ est.currentReward = rewardOfHeight
            /\ est.nextReward = DyHalf(rewardOfHeight)

(***************************************************************************)
(* C13.  The days until the next halving are computed from the blocks      *)
(* until the halving and the fixed 144 blocks per day only (the quotient   *)
(* as whole days: rounded to the nearest day by the service, rounded down  *)
(* by the tracker); they do not change with the observed 24-hour block     *)
(* count of the same summary.                                              *)
(***************************************************************************)
RoundedDaysOfBlocks(est) ==
    LET off == BLOCKS_PER_DAY_AVERAGE * est.daysUntilHalving
                   - est.blocksUntilHalving
    IN  -BLOCKS_PER_DAY_AVERAGE < 2 * off /\ 2 * off <= BLOCKS_PER_DAY_AVERAGE

WholeDaysOfBlocks(est) ==
    LET left == est.blocksUntilHalving
                    - BLOCKS_PER_DAY_AVERAGE * est.daysUntilHalving
    IN  0 <= left /\ left < BLOCKS_PER_DAY_AVERAGE

SummaryHalving(c) == c.ret.value.remaining.nextHalvingEstimate

C13_HalvingDaysFromBlocksAnd144Only ==
    /\ Returned(last, "getNextHalvingEstimate") =>
           RoundedDaysOfBlocks(last.ret.value)
    /\ Returned(last, "calculateNextHalving") =>
           WholeDaysOfBlocks(last.ret.value)
    /\ Returned(last, "getMiningSummary") =>
           RoundedDaysOfBlocks(SummaryHalving(last))
    /\ (Returned(last, "getMiningSummary") /\ Returned(prev, "getMiningSummary")
            /\ prev.args.remaining = last.args.remaining) =>
           SummaryHalving(prev).daysUntilHalving
               = SummaryHalving(last).daysUntilHalving

C13_Witness ==
    /\ Returned(last, "getMiningSummary")
    /\ Returned(prev, "getMiningSummary")
    /\ prev.args.remaining = last.args.remaining
    /\ prev.args.daily.ok /\ last.args.daily.ok
    /\ prev.args.daily.nblocks = 144
    /\ last.args.daily.nblocks = 150
    /\ last.ret.value.daily.blocksMinedLast24h = 150
    /\ SummaryHalving(last).blocksUntilHalving = 123556
    /\ SummaryHalving(last).daysUntilHalving = 858

(***************************************************************************)
(* C14.  The reported percentage mined is the circulating supply divided   *)
(* by 21,000,000, times 100, at the precision it is printed with, and lies *)
(* in [0, 100] for every satoshi count in [0, 21,000,000 x 10^8]; for      *)
(* 19957621 x 10^8 satoshis it is 95.03 to within 0.01.                    *)
(***************************************************************************)
\* p is x / n rounded to the nearest integer, for a decimal x
IsNearestToQuotient(p, x, n) ==
    LET below == 2 * n * p - n - 2 * x.whole
        above == 2 * n * p + n - 2 * x.whole
    IN  /\ \/ below <= 0
           \/ below = 1 /\ 2 * x.frac >= SATOSHIS_PER_BITCOIN
        /\ \/ above >= 2
           \/ above = 1 /\ 2 * x.frac <= SATOSHIS_PER_BITCOIN
           \/ above = 0 /\ x.frac = 0

C14_PercentMinedIsSupplyOverTotal ==
    /\ (Returned(last, "fetchBlockchainData")
            /\ WithinSupply(last.args.stats.totalbc)) =>
           LET p == last.ret.value.summary.percentageMined
           IN  /\ IsNearestToQuotient(p, FxOfSatoshis(last.args.stats.totalbc), 21)
               /\ 0 <= p /\ p <= 100 * 10000
               /\ last.ret.value.remaining.percentageMined = p
               /\ last.args.stats.totalbc = Sat(19957621, 0) =>
                      (950300 - 100 <= p /\ p <= 950300 + 100)
    /\ (Returned(last, "fn_getCurrentStats")
            /\ WithinSupply(last.args.stats.totalbc)) =>
           LET p == last.ret.value.percentageMined
           IN  /\ IsNearestToQuotient(p, FxOfSatoshis(last.args.stats.totalbc), 2100)
               /\ 0 <= p /\ p <= 100 * 100
               /\ last.args.stats.totalbc = Sat(19957621, 0) =>
                      (9503 - 1 <= p /\ p <= 9503 + 1)

C14_Witness ==
    /\ Returned(last, "fetchBlockchainData")
    /\ last.args.stats.totalbc = Sat(19957621, 0)
    /\ last.ret.value.summary.percentageMined = 950363

(***************************************************************************)
(* C15.  Every data endpoint of the server is cached for 5 minutes: after  *)
(* a successful upstream fetch for an endpoint at time t, every request to *)
(* that endpoint before t + 5 minutes is answered with the stored data     *)
(* without calling upstream, and the first request at or after             *)
(* t + 5 minutes calls upstream again.                                     *)
(***************************************************************************)
BeganOn(routes) == ev.phase = "begin" /\ ev.route \in routes

AnsweredFromCache(entry) ==
    ev.status = 200 /\ ~ev.upstream /\ ev.body = entry.data

C15_FreshForFiveMinutesAfterFetch ==
    (BeganOn(ServerRoutes) /\ ev.watched >= 0) =>
        /\ ev.at < ev.watched + CACHE_DURATION => AnsweredFromCache(ev.entry)
        /\ ev.at >= ev.watched + CACHE_DURATION => ev.upstream

(***************************************************************************)
(* C15, as the handlers have it: the 5 minutes run from the time t of the  *)
(* most recent write of the endpoint's cache entry, by whichever request   *)
(* and whether it stored fetched or estimated data.  A request before      *)
(* t + 5 minutes is answered with the stored data without calling          *)
(* upstream; a request at or after t + 5 minutes, or with nothing stored,  *)
(* calls upstream.                                                         *)
(***************************************************************************)
C15_FreshForFiveMinutesAfterLastWrite ==
    BeganOn(ServerRoutes) =>
        IF ev.stored # NoEntry /\ ev.at < ev.stored.timestamp + CACHE_DURATION
        THEN AnsweredFromCache(ev.stored)
        ELSE ev.upstream /\ ev.status = 0

\* a request after the expiry of an earlier fetch is answered from the cache,
\* which a later answer of an overlapping request has refreshed
C15_Witness ==
    /\ BeganOn(ServerRoutes)
    /\ ev.watched >= 0
    /\ ev.at >= ev.watched + CACHE_DURATION
    /\ ev.stored.timestamp > ev.watched
    /\ AnsweredFromCache(ev.stored)

(***************************************************************************)
(* C16.  When several requests for the same endpoint run concurrently      *)
(* against an empty or expired cache, each is answered with data for that  *)
(* endpoint (an error only when its own upstream call failed, never        *)
(* another endpoint's data), and after all of them finish the cache entry  *)
(* for that key is the one written by the last setCachedData call.         *)
(***************************************************************************)
IsDataOf(route, body) ==
    \E respStats \in UpstreamStats, respBlocks \in UpstreamBlocks :
        routeService(route, respStats, respBlocks) = Ok(body)

AllFinished == \A r \in Requests : req[r].pc = "idle"

C16_RacingRequestsLastWriteWins ==
    /\ (ev.phase = "resolve" /\ ev.raced) =>
           /\ ev.status \in {200, 500}
           /\ ev.status = 200 => IsDataOf(ev.route, ev.body)
           /\ ev.status = 500 => ev.failed
    /\ AllFinished => \A k \in CacheKeys : cache[k] = wrote[k]

C16_Witness ==
    /\ ev.phase = "resolve" /\ ev.raced
    /\ AllFinished
    /\ ev.status = 200
    /\ ev.entry # NoEntry
    /\ ev.at < ev.entry.timestamp + CACHE_DURATION
    /\ ev.entry.data # ev.body
    /\ cache[cacheKey(ev.route)] = [data |-> ev.body, timestamp |-> ev.at]

(***************************************************************************)
(* C19.  A serverless handler that receives a request whose method is      *)
(* neither GET nor OPTIONS answers 405 'Method not allowed' and neither    *)
(* calls upstream nor writes the cache.                                    *)
(***************************************************************************)
C19_OtherMethodsAreRejected ==
    (ev.phase # "none" /\ ev.route \in FnRoutes
            /\ ev.method \notin {"GET", "OPTIONS"}) =>
        /\ ev.phase = "begin"
        /\ ev.status = 405
        /\ ev.body = [error |-> "Method not allowed"]
        /\ ~ev.upstream
        /\ cache[cacheKey(ev.route)] = ev.entry

(***************************************************************************)
(* C20.  When the upstream fetch for a server endpoint fails, the request  *)
(* is answered with status 500 and the cache entry for that endpoint is    *)
(* left unchanged.                                                         *)
(***************************************************************************)
C20_FailedFetchGives500AndKeepsCache ==
    (ev.phase = "resolve" /\ ev.route \in ServerRoutes /\ ev.failed) =>
        /\ ev.status = 500
        /\ cache[cacheKey(ev.route)] = ev.entry

(***************************************************************************)
(* C17.  When a periodic refresh fails, the data displayed by the client   *)
(* is left unchanged: a failed refresh never replaces the data shown with  *)
(* other values.                                                           *)
(***************************************************************************)
C17_FailedRefreshKeepsData ==
    (cev.phase = "settled" /\ cev.by = "timer" /\ cev.failed) =>
        this_data = cev.before

(***************************************************************************)
(* C18.  Once init() has gone through, exactly one refresh timer has been  *)
(* started, of 5 minutes; every tick of it attempts a refresh, and a       *)
(* refresh that fails leaves the timer running, so that later ticks        *)
(* refresh again.                                                          *)
(***************************************************************************)
RefreshInFlight ==
    \E l \in Loads : loads[l].pc = "awaiting" /\ loads[l].by = "timer"

C18_OneRefreshTimerKeepsTicking ==
    /\ Len(timers) <= 1
    /\ initState = "ok" =>
           /\ Len(timers) = 1
           /\ timers[1].every = 5 * 60 * 1000
           /\ (\E l \in Loads : loads[l].pc = "idle") =>
                  ENABLED TimerFires
    /\ cev.phase = "tick" => RefreshInFlight
    /\ (cev.phase = "settled" /\ cev.by = "timer") => Len(timers) = 1

C18_Witness ==
    /\ initState = "ok"
    /\ cev.phase = "tick"
    /\ cev.afterFailed
    /\ Len(timers) = 1
    /\ RefreshInFlight

(***************************************************************************)
(* C21.  A price that fetchPriceData() fetched is labelled with the        *)
(* currency it was requested in: the currency of the returned record is,   *)
(* in lower case, the currency the request named, however a change of the  *)
(* selected currency falls between the request and its answer.             *)
(***************************************************************************)
C21_PriceIsInItsCurrencyLabel ==
    \A l \in Loads :
        (loads[l].pc = "awaiting" /\ loads[l].priceOk) =>
            /\ toLowerCase(loads[l].price.currency) = loads[l].currency
            /\ loads[l].price.current
                   \in {resp.bitcoin[toLowerCase(loads[l].price.currency)] :
                           resp \in {r \in PriceResponses(
                                              toLowerCase(loads[l].price.currency)) :
                                          r.ok}}

(***************************************************************************)
(* C22.  When loadRealTimeData() calls of the page overlapped and all of   *)
(* them have completed, the data shown is what the call that started last  *)
(* came to, in whatever order the calls completed.                         *)
(***************************************************************************)
C22_LastStartedLoadIsShown ==
    (script = "part_000" /\ batch.overlapped /\ ~InFlight) =>
        this_data = batch.result

(***************************************************************************)
(* C23.  The loading indicator is visible exactly while at least one       *)
(* loadRealTimeData() call is in flight.                                   *)
(***************************************************************************)
C23_LoadingShownIffLoadInFlight ==
    script = "part_000" => (loading <=> InFlight)

(***************************************************************************)
(* C24.  A mining summary is of one snapshot: the supply in circulation of *)
(* its current part is the current supply of its remaining part, and the   *)
(* next halving of its remaining part is the one of the block height of    *)
(* its current part, also when the upstream counters move between the      *)
(* requests of the summary.                                                *)
(***************************************************************************)
C24_SummaryIsOfOneSnapshot ==
    Returned(last, "getMiningSummary") =>
        LET current == last.ret.value.current
            remaining == last.ret.value.remaining
            halving == remaining.nextHalvingEstimate
        IN  /\ current.totalBitcoinsInCirculation = remaining.currentSupply
            /\ halving.nextHalvingBlock
                   = Math_ceil_div(current.currentBlockHeight, HALVING_INTERVAL)
                         * HALVING_INTERVAL
            /\ halving.blocksUntilHalving
                   = halving.nextHalvingBlock - current.currentBlockHeight

(***************************************************************************)
(* C25.  The server cache holds only data of a successful upstream fetch:  *)
(* a request whose upstream fetch failed stores nothing, so that no entry  *)
(* of the cache and no answer given from the cache is estimated data.      *)
(***************************************************************************)
C25_OnlyFetchedDataIsCached ==
    /\ cache["daily-stats"] # NoEntry => ~cache["daily-stats"].data.isEstimated
    /\ (ev.phase = "resolve" /\ ev.route \in DailyRoutes /\ ev.failed) =>
           cache[cacheKey(ev.route)] = ev.entry
    /\ (BeganOn(DailyRoutes) /\ ~ev.upstream /\ ev.status = 200) =>
           ~ev.body.isEstimated

(***************************************************************************)
(* C26.  For every list of billionaires the page can get, the built-in one *)
(* included, and every net worth, the rank calculateSatoshiRanking gives   *)
(* is 1 plus the number of listed billionaires wealthier than Satoshi,     *)
(* which is the rank of Satoshi in the sorted list of                      *)
(* updateWealthComparison.                                                 *)
(***************************************************************************)
WealthierThan(billionaires, netWorth) ==
    {i \in 1..Len(billionaires) : billionaires[i].wealth > netWorth}

SatoshiIn(allBillionaires) ==
    allBillionaires[CHOOSE i \in 1..Len(allBillionaires) :
                        allBillionaires[i].isSatoshi]

C26_RankIsOnePlusWealthierBillionaires ==
    Returned(last, "updateSatoshiNetWorth") =>
        LET shown == last.ret.value
            wealthier == WealthierThan(shown.billionaires, shown.netWorth)
        IN  /\ shown.ranking.number = 1 + Cardinality(wealthier)
            /\ (\A i \in 1..Len(shown.billionaires) :
                    shown.billionaires[i].wealth # shown.netWorth) =>
                   shown.ranking.number
                       = SatoshiIn(shown.comparison.allBillionaires).rank

=============================================================================
